---- MODULE Spec2Model ----
(***************************************************************************)
(* audiowise (src/main.py): video -> corrected transcript pipeline.        *)
(* The model follows main(), process_folder() and the helpers they call,   *)
(* against a small file system.  Paths are sequences of one-character      *)
(* strings (plus a few multi-character tokens for the generated scratch    *)
(* names), so that os.path.splitext / basename / str.lower / startswith    *)
(* are computed the way the library computes them.                         *)
(***************************************************************************)
EXTENDS Integers, Sequences, FiniteSets, TLC

\* ---------------------------------------------------------------- bounds
MaxRuns == 2        \* number of successive invocations of the program
MaxFaults == 2      \* environment faults (stage errors, failed removes) per invocation
MaxSignals == 1     \* signals handled by handle_exit per invocation

\* ------------------------------------------------------- path vocabulary
Slash == <<"/">>
Txt == <<".", "t", "x", "t">>
InDir == <<"i", "n">>
OutDir == <<"o", "u", "t">>
OutFile == <<"r", ".", "t", "x", "t">>
HomeDir == <<"~">>
LocalVideo == <<"t", ".", "m", "p", "4">>
MissingVideo == <<"m", ".", "m", "p", "4">>
UrlVideo == <<"h", "t", "t", "p", ":", "/", "/", "h", "/", "v", ".", "m", "p", "4">>
\* a URL whose text also names an existing local file (./http:/h/w.mp4)
UrlShadowed == <<"h", "t", "t", "p", ":", "/", "/", "h", "/", "w", ".", "m", "p", "4">>

\* entries of the input folder
E_a_mp4 == <<"a", ".", "m", "p", "4">>
E_a_MKV == <<"a", ".", "M", "K", "V">>
E_b_avi == <<"b", ".", "a", "v", "i">>
E_n_txt == <<"n", ".", "t", "x", "t">>
E_hidden == <<".", "m", "p", "4">>
E_subdir == <<"d", ".", "m", "p", "4">>

FolderFiles == {E_a_mp4, E_a_MKV, E_b_avi, E_n_txt, E_hidden}
FolderDirs == {E_subdir}

\* os.path.join(a, b) for a relative b
Join(a, b) == a \o Slash \o b

\* str.rfind for a single character; 0 when absent (Python: -1, 0-based)
RFind(p, c) ==
    LET hits == {i \in 1..Len(p) : p[i] = c}
    IN IF hits = {} THEN 0 ELSE CHOOSE i \in hits : \A j \in hits : j <= i

\* os.path.splitext (genericpath._splitext with sep "/" and extsep ".")
splitext(p) ==
    LET sepIndex == RFind(p, "/")
        dotIndex == RFind(p, ".")
    IN IF /\ dotIndex > sepIndex
          /\ \E k \in (sepIndex + 1)..(dotIndex - 1) : p[k] # "."
       THEN <<SubSeq(p, 1, dotIndex - 1), SubSeq(p, dotIndex, Len(p))>>
       ELSE <<p, <<>> >>

\* os.path.basename
basename(p) == SubSeq(p, RFind(p, "/") + 1, Len(p))

\* os.path.dirname (the empty sequence is the working directory)
dirname(p) == SubSeq(p, 1, RFind(p, "/") - 1)

\* str.lower, character by character
LowerChar(c) ==
    CASE c = "M" -> "m"
      [] c = "K" -> "k"
      [] c = "V" -> "v"
      [] c = "P" -> "p"
      [] c = "A" -> "a"
      [] c = "I" -> "i"
      [] OTHER -> c

lower(s) == [i \in 1..Len(s) |-> LowerChar(s[i])]

\* str.startswith("http")
startswith_http(p) == Len(p) >= 4 /\ SubSeq(p, 1, 4) = <<"h", "t", "t", "p">>

SUPPORTED_VIDEO_EXTENSIONS ==
    { <<".", "m", "p", "4">>, <<".", "m", "k", "v">>, <<".", "a", "v", "i">>,
      <<".", "m", "o", "v">>, <<".", "f", "l", "v">>, <<".", "w", "m", "v">>,
      <<".", "t", "s">>, <<".", "w", "e", "b", "m">>, <<".", "m", "4", "v">> }

\* uuid.uuid4().hex of the n-th allocation, as a name token
IdToken == <<"u1", "u2", "u3", "u4", "u5", "u6", "u7", "u8", "u9", "u10", "u11", "u12">>

TempDir == Join(HomeDir, <<".audiowise">>)
VideoScratch(n) == Join(TempDir, <<"video_", IdToken[n], ".mp4">>)
AudioScratch(n) == Join(TempDir, <<"audio_", IdToken[n], ".mp3">>)
MonoScratch(n) == Join(TempDir, <<"mono_audio_", IdToken[n], ".mp3">>)

Range(s) == {s[i] : i \in 1..Len(s)}

Perms(S) == {s \in [1..Cardinality(S) -> S] : \A i, j \in 1..Cardinality(S) : s[i] = s[j] => i = j}

\* command lines the runs are started with: [input, output]
Invocations ==
    { [input |-> InDir, output |-> OutDir],
      [input |-> LocalVideo, output |-> OutFile],
      [input |-> LocalVideo, output |-> OutDir],
      [input |-> UrlVideo, output |-> OutDir],
      [input |-> UrlShadowed, output |-> OutDir],
      [input |-> MissingVideo, output |-> OutFile] }

\* file contents: what kind of file; for a scratch file the token it was named
\* with; for a transcript which input it was made from, in which invocation,
\* and whether write-and-close completed
SourceFile == [kind |-> "video", of |-> <<>>, uid |-> 0, complete |-> TRUE]
OtherFile == [kind |-> "other", of |-> <<>>, uid |-> 0, complete |-> TRUE]
ScratchFile(n) == [kind |-> "scratch", of |-> <<>>, uid |-> n, complete |-> TRUE]
TextFile(src, r, done) == [kind |-> "text", of |-> src, uid |-> r, complete |-> done]

Dependencies == {"ffmpeg", "whisper", "languagetool"}

NoJob ==
    [video_file |-> <<>>, video_path |-> <<>>, output_path |-> <<>>, unique_id |-> 0,
     temp_video_path |-> <<>>, output_audio_path |-> <<>>, mono_audio_path |-> <<>>,
     status |-> "none", before |-> {}, hadOutput |-> FALSE]

VARIABLES
    fs,             \* regular files on disk: path -> content
    dirs,           \* directories on disk
    run,            \* number of invocations started so far
    pc,             \* position of the running process ("idle": no process)
    args,           \* parsed command line of the running process
    handlers,       \* signal handlers installed (main, lines 153-154)
    temp_files,     \* main's temp_files list, the one handle_exit closes over
    pf_temp_files,  \* process_folder's own temp_files list
    video_files,    \* process_folder's filtered listing
    idx,            \* position of the for loop in video_files
    job,            \* locals of the item being processed
    nextId,         \* last uuid4 token in use (tokens are fresh: never one a file on disk carries)
    exitStatus,     \* exit status of the last process that ended (-1: none)
    faults,         \* environment faults injected in this invocation
    ran,            \* <<video_path, stage>> pairs started since the current item began
    removed,        \* paths os.remove was called on since the current item began
    released,       \* paths handed to cleanup_temp_files since the current item began
    errs,           \* error lines printed in this invocation
    hist,           \* items finished in this invocation: [file, status]
    sigAt,          \* positions at which handle_exit ran in this invocation
    unavailable,    \* dependencies that are unavailable during this invocation
    clobbered,      \* paths that existed when open(path, 'w') was called on them
    lastCleanup,    \* outcome of the last cleanup_temp_files call since the current item began
    opened          \* paths open(path, 'w') has succeeded on in this invocation, in order

vars == <<fs, dirs, run, pc, args, handlers, temp_files, pf_temp_files, video_files,
          idx, job, nextId, exitStatus, faults, ran, removed, released, errs, hist, sigAt,
          unavailable, clobbered, lastCleanup, opened>>

\* os.path.exists / isfile / isdir
exists(p) == p \in DOMAIN fs \/ p \in dirs
isfile(p) == p \in DOMAIN fs
isdir(p) == p \in dirs

\* the file system without the given paths
Without(f, S) == [p \in (DOMAIN f) \ S |-> f[p]]

\* the file system with one file created or replaced
WithFile(f, p, c) == [q \in (DOMAIN f) \cup {p} |-> IF q = p THEN c ELSE f[q]]

\* files now present in TempDirectory
TempListing(f) == {p \in DOMAIN f : Len(p) > Len(TempDir) /\ SubSeq(p, 1, Len(TempDir)) = TempDir}

\* no cleanup_temp_files call yet
NoCleanup == [called |-> FALSE, raised |-> FALSE, unattempted |-> {}]

InitialFiles ==
    [p \in {Join(InDir, e) : e \in FolderFiles} \cup {LocalVideo, UrlShadowed}
      |-> IF p = Join(InDir, E_n_txt) THEN OtherFile ELSE SourceFile]

Init ==
    /\ fs = InitialFiles
    /\ \E outThere \in BOOLEAN :
         dirs = {InDir} \cup {Join(InDir, e) : e \in FolderDirs}
                \cup (IF outThere THEN {OutDir} ELSE {})
    /\ run = 0
    /\ pc = "idle"
    /\ args = [input |-> <<>>, output |-> <<>>, mode |-> ""]
    /\ handlers = FALSE
    /\ temp_files = <<>>
    /\ pf_temp_files = <<>>
    /\ video_files = <<>>
    /\ idx = 0
    /\ job = NoJob
    /\ nextId = 0
    /\ exitStatus = -1
    /\ faults = 0
    /\ ran = {}
    /\ removed = {}
    /\ released = {}
    /\ errs = {}
    /\ hist = {}
    /\ sigAt = <<>>
    /\ unavailable = {}
    /\ clobbered = {}
    /\ lastCleanup = NoCleanup
    /\ opened = <<>>

\* ------------------------------------------------------------ helpers

\* positions inside the per-item try block (main 182-195, process_folder 121-128)
InnerTry ==
    {"download", "download_body", "extract", "extract_run", "mono", "mono_run",
     "transcribe", "correct", "open", "write", "rm_audio", "rm_mono", "rm_video", "job_ok"}

\* positions inside main's outer try block (lines 156-199) but in no inner one
OuterTry ==
    {"check_deps", "load", "dispatch", "s_check", "s_alloc", "s_except",
     "pf_enum", "pf_loop", "pf_alloc", "pf_except"}

\* where control goes when an Exception is raised at position p
ExceptTarget(p) ==
    IF p \in InnerTry
    THEN (IF args.mode = "batch" THEN "pf_except" ELSE "s_except")
    ELSE IF p \in OuterTry THEN "outer_except" ELSE "crash"

\* cleanup_temp_files(list) on file system f: the loop either runs to the end,
\* or os.remove raises at some entry that exists and the loop is abandoned there
cleanup_temp_files(f, list) ==
    LET before(k) == {list[j] : j \in 1..(k - 1)}
        present(k) == list[k] \in DOMAIN f /\ list[k] \notin before(k)
        full == [fs |-> Without(f, Range(list)), raised |-> FALSE,
                 tried |-> {list[k] : k \in {k \in 1..Len(list) : present(k) \/ list[k] \in dirs}}]
        stopAt(k) == [fs |-> Without(f, before(k)), raised |-> TRUE,
                      tried |-> {list[j] : j \in {j \in 1..k : present(j) \/ list[j] \in dirs}}]
    IN  (IF \E k \in 1..Len(list) : list[k] \in dirs THEN {} ELSE {full})
        \cup {stopAt(k) : k \in {k \in 1..Len(list) :
                 /\ present(k) \/ list[k] \in dirs
                 /\ \A j \in 1..(k - 1) : list[j] \notin dirs
                 /\ (list[k] \in dirs \/ faults < MaxFaults)}}

\* what the caller of cleanup_temp_files(list) gets with outcome o: whether the
\* call raised, and the listed files on disk that os.remove was never called on
CleanupOutcome(list, o) ==
    [called |-> TRUE, raised |-> o.raised,
     unattempted |-> (Range(list) \cap DOMAIN fs) \ o.tried]

\* uuid4 never repeats a token: a new process draws tokens beyond those that name
\* a file left in TempDirectory
LastTokenOnDisk ==
    LET used == {n \in 1..Len(IdToken) : \E p \in DOMAIN fs : fs[p].kind = "scratch" /\ fs[p].uid = n}
    IN  IF used = {} THEN 0 ELSE CHOOSE n \in used : \A m \in used : m <= n

\* the process ends with the given status
Exit(status) ==
    /\ pc' = "idle"
    /\ exitStatus' = status
    /\ handlers' = FALSE

JobEnds(j, status) == [j EXCEPT !.status = status]

\* ------------------------------------------------------------ main()

\* lines 133-146: a new invocation parses its arguments
StartRun ==
    /\ pc = "idle"
    /\ run < MaxRuns
    /\ run' = run + 1
    /\ \E a \in Invocations : args' = [input |-> a.input, output |-> a.output, mode |-> ""]
    /\ \E u \in SUBSET Dependencies : unavailable' = u
    /\ temp_files' = <<>>
    /\ pf_temp_files' = <<>>
    /\ video_files' = <<>>
    /\ idx' = 0
    /\ job' = NoJob
    /\ faults' = 0
    /\ ran' = {}
    /\ removed' = {}
    /\ released' = {}
    /\ errs' = {}
    /\ hist' = {}
    /\ sigAt' = <<>>
    /\ exitStatus' = -1
    /\ pc' = "install"
    /\ nextId' = LastTokenOnDisk
    /\ lastCleanup' = NoCleanup
    /\ opened' = <<>>
    /\ UNCHANGED <<fs, dirs, handlers, clobbered>>

\* lines 153-154: signal.signal(SIGINT/SIGTERM, handle_exit)
InstallHandlers ==
    /\ pc = "install"
    /\ handlers' = TRUE
    /\ pc' = "check_deps"
    /\ UNCHANGED <<fs, dirs, run, args, temp_files, pf_temp_files, video_files, idx, job,
                   nextId, exitStatus, faults, ran, removed, released, errs, hist, sigAt,
                   unavailable, clobbered, lastCleanup, opened>>

\* a signal that arrives before the handlers are installed ends the process
DefaultSignal ==
    /\ pc = "install"
    /\ ~handlers
    /\ Exit(1)
    /\ UNCHANGED <<fs, dirs, run, args, temp_files, pf_temp_files, video_files, idx, job,
                   nextId, faults, ran, removed, released, errs, hist, sigAt, unavailable, clobbered, lastCleanup, opened>>

\* a check that ignores the result of `which ffmpeg`
DepsFoundIgnoringFfmpeg == unavailable \ {"ffmpeg"}

\* the dependencies check_dependencies() finds missing
DepsFound == unavailable

\* lines 31-44 called at line 157
check_dependencies ==
    /\ pc = "check_deps"
    /\ pc' = IF DepsFound # {} THEN "outer_except" ELSE "load"
    /\ UNCHANGED <<fs, dirs, run, args, handlers, temp_files, pf_temp_files, video_files,
                   idx, job, nextId, exitStatus, faults, ran, removed, released, errs, hist,
                   sigAt, unavailable, clobbered, lastCleanup, opened>>

\* lines 158-159: load the selected model and the correction tool
LoadHandles ==
    /\ pc = "load"
    /\ \/ /\ unavailable \cap {"whisper", "languagetool"} = {}
          /\ pc' = "dispatch"
          /\ UNCHANGED faults
       \/ /\ \/ unavailable \cap {"whisper", "languagetool"} # {}
             \/ faults < MaxFaults
          /\ faults' = faults + 1
          /\ pc' = "outer_except"
    /\ UNCHANGED <<fs, dirs, run, args, handlers, temp_files, pf_temp_files, video_files,
                   idx, job, nextId, exitStatus, ran, removed, released, errs, hist, sigAt,
                   unavailable, clobbered, lastCleanup, opened>>

\* line 161: folder or single item
Dispatch ==
    /\ pc = "dispatch"
    /\ IF isdir(args.input)
       THEN /\ args' = [args EXCEPT !.mode = "batch"]
            /\ pc' = "pf_enum"
       ELSE /\ args' = [args EXCEPT !.mode = "single"]
            /\ pc' = "s_check"
    /\ UNCHANGED <<fs, dirs, run, handlers, temp_files, pf_temp_files, video_files, idx, job,
                   nextId, exitStatus, faults, ran, removed, released, errs, hist, sigAt,
                   unavailable, clobbered, lastCleanup, opened>>

\* line 168-169: an output that is a directory gets <stem>.txt appended
SingleOutputPath(video_path, output_path) ==
    IF isdir(output_path)
    THEN Join(output_path, splitext(basename(video_path))[1] \o Txt)
    ELSE output_path

\* lines 164-173: the early returns of single-item mode
SingleCheck ==
    /\ pc = "s_check"
    /\ LET video_path == args.input
           output_path == SingleOutputPath(video_path, args.output)
           j == [NoJob EXCEPT !.video_file = video_path, !.video_path = video_path,
                              !.output_path = output_path, !.status = "pending",
                              !.hadOutput = exists(output_path)]
       IN  IF ~exists(video_path)
           THEN /\ errs' = errs \cup {<<"no_input", video_path>>}
                /\ Exit(0)
                /\ UNCHANGED <<job, hist>>
           ELSE IF exists(output_path)
           THEN /\ job' = JobEnds(j, "skipped")
                /\ hist' = hist \cup {[file |-> video_path, status |-> "skipped"]}
                /\ Exit(0)
                /\ UNCHANGED errs
           ELSE /\ job' = j
                /\ pc' = "s_alloc"
                /\ UNCHANGED <<errs, hist, exitStatus, handlers>>
    /\ UNCHANGED <<fs, dirs, run, args, temp_files, pf_temp_files, video_files, idx,
                   nextId, faults, ran, removed, released, sigAt, unavailable, clobbered, lastCleanup, opened>>

\* line 177: where the video to extract from lives
TempVideoPath(video_path, n) ==
    IF startswith_http(video_path) THEN VideoScratch(n) ELSE video_path

\* line 180: what single-item mode registers for the signal handler
SingleRegistered(j) == <<j.output_audio_path, j.mono_audio_path>>

\* lines 175-180 (get_temp_dir: lines 16-22)
SingleAlloc ==
    /\ pc = "s_alloc"
    /\ nextId' = nextId + 1
    /\ dirs' = dirs \cup {TempDir}
    /\ LET j == [job EXCEPT !.unique_id = nextId + 1,
                            !.temp_video_path = TempVideoPath(job.video_path, nextId + 1),
                            !.output_audio_path = AudioScratch(nextId + 1),
                            !.mono_audio_path = MonoScratch(nextId + 1),
                            !.status = "active",
                            !.before = TempListing(fs)]
       IN  /\ job' = j
           /\ temp_files' = temp_files \o SingleRegistered(j)
    /\ pc' = IF startswith_http(job.video_path) THEN "download" ELSE "extract"
    /\ UNCHANGED <<fs, run, args, handlers, pf_temp_files, video_files, idx, exitStatus,
                   faults, ran, removed, released, errs, hist, sigAt, unavailable, clobbered, lastCleanup, opened>>

\* ------------------------------------------------------- pipeline stages

\* an order that opens the destination before the speech-to-text call
NextStageOpenFirst(p) ==
    CASE p = "download_body" -> "extract"
      [] p = "extract_run" -> "mono"
      [] p = "mono_run" -> "open"
      [] p = "open" -> "write"
      [] p = "write" -> "transcribe"
      [] p = "transcribe" -> "correct"
      [] p = "correct" -> "rm_audio"

\* an order that leaves the downmix out
NextStageSkipsDownmix(p) ==
    CASE p = "download_body" -> "extract"
      [] p = "extract_run" -> "transcribe"
      [] p = "mono_run" -> "transcribe"
      [] p = "transcribe" -> "correct"
      [] p = "correct" -> "open"
      [] p = "open" -> "write"
      [] p = "write" -> "rm_audio"

\* an order that starts removing the scratch files before f.write has returned
NextStageCleanupFirst(p) ==
    CASE p = "download_body" -> "extract"
      [] p = "extract_run" -> "mono"
      [] p = "mono_run" -> "transcribe"
      [] p = "transcribe" -> "correct"
      [] p = "correct" -> "open"
      [] p = "open" -> "rm_audio"
      [] p = "write" -> "rm_audio"

\* the statement order of the per-item try block (lines 184-190, 123-126) and
\* of transcribe_audio (lines 77-83): where control continues when the step at
\* position p has succeeded
NextStage(p) ==
    CASE p = "download_body" -> "extract"
      [] p = "extract_run" -> "mono"
      [] p = "mono_run" -> "transcribe"
      [] p = "transcribe" -> "correct"
      [] p = "correct" -> "open"
      [] p = "open" -> "write"
      [] p = "write" -> "rm_audio"

\* an Exception raised at the current position, caused by the environment
Fails ==
    /\ faults < MaxFaults
    /\ faults' = faults + 1
    /\ pc' = ExceptTarget(pc)

\* lines 46-56 called at line 185: requests.get, then open(download_path, 'wb')
download_video ==
    /\ pc = "download"
    /\ ran' = ran \cup {<<job.video_path, "fetch">>}
    /\ \/ /\ fs' = WithFile(fs, job.temp_video_path, ScratchFile(job.unique_id))
          /\ pc' = "download_body"
          /\ UNCHANGED faults
       \/ /\ Fails
          /\ UNCHANGED fs
    /\ UNCHANGED <<dirs, run, args, handlers, temp_files, pf_temp_files, video_files, idx,
                   job, nextId, exitStatus, removed, released, errs, hist, sigAt, unavailable, clobbered, lastCleanup, opened>>

\* lines 52-54: the chunks are streamed into the file
download_body ==
    /\ pc = "download_body"
    /\ \/ /\ pc' = NextStage(pc)
          /\ UNCHANGED faults
       \/ Fails
    /\ UNCHANGED <<fs, dirs, run, args, handlers, temp_files, pf_temp_files, video_files,
                   idx, job, nextId, exitStatus, ran, removed, released, errs, hist, sigAt,
                   unavailable, clobbered, lastCleanup, opened>>

\* lines 58-72 called at lines 187 and 123: ffmpeg starts and creates its output,
\* or fails before it has created anything
extract_audio ==
    /\ pc = "extract"
    /\ ran' = ran \cup {<<job.video_path, "extract">>}
    /\ IF "ffmpeg" \in unavailable
       THEN /\ pc' = ExceptTarget(pc)
            /\ UNCHANGED <<fs, faults>>
       ELSE \/ /\ fs' = WithFile(fs, job.output_audio_path, ScratchFile(job.unique_id))
               /\ pc' = "extract_run"
               /\ UNCHANGED faults
            \/ /\ Fails
               /\ UNCHANGED fs
    /\ UNCHANGED <<dirs, run, args, handlers, temp_files, pf_temp_files, video_files, idx,
                   job, nextId, exitStatus, removed, released, errs, hist, sigAt, unavailable, clobbered, lastCleanup, opened>>

\* ffmpeg exits: zero, or non-zero (CalledProcessError -> RuntimeError, line 71-72)
extract_audio_exit ==
    /\ pc = "extract_run"
    /\ \/ /\ pc' = NextStage(pc)
          /\ UNCHANGED faults
       \/ Fails
    /\ UNCHANGED <<fs, dirs, run, args, handlers, temp_files, pf_temp_files, video_files,
                   idx, job, nextId, exitStatus, ran, removed, released, errs, hist, sigAt,
                   unavailable, clobbered, lastCleanup, opened>>

\* lines 86-93 called at lines 188 and 124
convert_to_mono ==
    /\ pc = "mono"
    /\ ran' = ran \cup {<<job.video_path, "downmix">>}
    /\ \/ /\ fs' = WithFile(fs, job.mono_audio_path, ScratchFile(job.unique_id))
          /\ pc' = "mono_run"
          /\ UNCHANGED faults
       \/ /\ Fails
          /\ UNCHANGED fs
    /\ UNCHANGED <<dirs, run, args, handlers, temp_files, pf_temp_files, video_files, idx,
                   job, nextId, exitStatus, removed, released, errs, hist, sigAt, unavailable, clobbered, lastCleanup, opened>>

convert_to_mono_exit ==
    /\ pc = "mono_run"
    /\ \/ /\ pc' = NextStage(pc)
          /\ UNCHANGED faults
       \/ Fails
    /\ UNCHANGED <<fs, dirs, run, args, handlers, temp_files, pf_temp_files, video_files,
                   idx, job, nextId, exitStatus, ran, removed, released, errs, hist, sigAt,
                   unavailable, clobbered, lastCleanup, opened>>

\* line 77: model.transcribe
transcribe_audio ==
    /\ pc = "transcribe"
    /\ ran' = ran \cup {<<job.video_path, "transcribe">>}
    /\ \/ /\ pc' = NextStage(pc)
          /\ UNCHANGED faults
       \/ Fails
    /\ UNCHANGED <<fs, dirs, run, args, handlers, temp_files, pf_temp_files, video_files,
                   idx, job, nextId, exitStatus, removed, released, errs, hist, sigAt,
                   unavailable, clobbered, lastCleanup, opened>>

\* line 80: tool.correct
correct_text ==
    /\ pc = "correct"
    /\ ran' = ran \cup {<<job.video_path, "correct">>}
    /\ \/ /\ pc' = NextStage(pc)
          /\ UNCHANGED faults
       \/ Fails
    /\ UNCHANGED <<fs, dirs, run, args, handlers, temp_files, pf_temp_files, video_files,
                   idx, job, nextId, exitStatus, removed, released, errs, hist, sigAt,
                   unavailable, clobbered, lastCleanup, opened>>

\* open(path, 'w') can succeed: the parent is a directory and path is not one
CanOpenForWrite(path) ==
    /\ dirname(path) = <<>> \/ dirname(path) \in dirs
    /\ path \notin dirs

\* line 82: open(output_txt_path, 'w') creates or truncates the destination
open_output ==
    /\ pc = "open"
    /\ ran' = ran \cup {<<job.video_path, "write">>}
    /\ IF ~CanOpenForWrite(job.output_path)
       THEN /\ pc' = ExceptTarget(pc)
            /\ UNCHANGED <<fs, faults, clobbered, opened>>
       ELSE \/ /\ fs' = WithFile(fs, job.output_path,
                                 TextFile(job.video_path, run, FALSE))
               /\ clobbered' = clobbered \cup ({job.output_path} \cap DOMAIN fs)
               /\ opened' = Append(opened, job.output_path)
               /\ pc' = NextStage(pc)
               /\ UNCHANGED faults
            \/ /\ Fails
               /\ UNCHANGED <<fs, clobbered, opened>>
    /\ UNCHANGED <<dirs, run, args, handlers, temp_files, pf_temp_files, video_files, idx,
                   job, nextId, exitStatus, removed, released, errs, hist, sigAt, unavailable,
                   lastCleanup>>

\* lines 83-84: write the text and leave the with block (close)
write_output ==
    /\ pc = "write"
    /\ \/ /\ fs' = WithFile(fs, job.output_path,
                            TextFile(job.video_path, run, TRUE))
          /\ pc' = NextStage(pc)
          /\ UNCHANGED faults
       \/ /\ Fails
          /\ UNCHANGED fs
    /\ UNCHANGED <<dirs, run, args, handlers, temp_files, pf_temp_files, video_files, idx,
                   job, nextId, exitStatus, ran, removed, released, errs, hist, sigAt,
                   unavailable, clobbered, lastCleanup, opened>>

\* os.remove(path), continuing at next when it succeeds
os_remove(path, next) ==
    /\ removed' = removed \cup {path}
    /\ IF path \notin DOMAIN fs
       THEN /\ pc' = ExceptTarget(pc)
            /\ UNCHANGED <<fs, faults>>
       ELSE \/ /\ fs' = Without(fs, {path})
               /\ pc' = next
               /\ UNCHANGED faults
            \/ /\ Fails
               /\ UNCHANGED fs

\* lines 190 and 126
remove_audio ==
    /\ pc = "rm_audio"
    /\ os_remove(job.output_audio_path, "rm_mono")
    /\ UNCHANGED <<dirs, run, args, handlers, temp_files, pf_temp_files, video_files, idx,
                   job, nextId, exitStatus, ran, released, errs, hist, sigAt, unavailable, clobbered, lastCleanup, opened>>

\* the final removal without the test that the video was fetched
RemovesVideoAlways == args.mode = "single"

\* line 192: single-item mode removes the video it fetched
RemovesVideo == args.mode = "single" /\ startswith_http(job.video_path)

\* lines 191 and 127
remove_mono ==
    /\ pc = "rm_mono"
    /\ os_remove(job.mono_audio_path, IF RemovesVideo THEN "rm_video" ELSE "job_ok")
    /\ UNCHANGED <<dirs, run, args, handlers, temp_files, pf_temp_files, video_files, idx,
                   job, nextId, exitStatus, ran, released, errs, hist, sigAt, unavailable, clobbered, lastCleanup, opened>>

\* lines 192-193
remove_video ==
    /\ pc = "rm_video"
    /\ os_remove(job.temp_video_path, "job_ok")
    /\ UNCHANGED <<dirs, run, args, handlers, temp_files, pf_temp_files, video_files, idx,
                   job, nextId, exitStatus, ran, released, errs, hist, sigAt, unavailable, clobbered, lastCleanup, opened>>

\* lines 194-195 (main returns) and line 128 (next loop iteration)
job_ok ==
    /\ pc = "job_ok"
    /\ job' = JobEnds(job, "done")
    /\ hist' = hist \cup {[file |-> job.video_file, status |-> "done"]}
    /\ IF args.mode = "batch"
       THEN /\ idx' = idx + 1
            /\ pc' = "pf_loop"
            /\ UNCHANGED <<exitStatus, handlers>>
       ELSE /\ Exit(0)
            /\ UNCHANGED idx
    /\ UNCHANGED <<fs, dirs, run, args, temp_files, pf_temp_files, video_files, nextId,
                   faults, ran, removed, released, errs, sigAt, unavailable, clobbered, lastCleanup, opened>>

\* lines 196-197: single-item mode prints the error; main returns
single_except ==
    /\ pc = "s_except"
    /\ errs' = errs \cup {<<"process", job.video_file>>}
    /\ job' = JobEnds(job, "failed")
    /\ hist' = hist \cup {[file |-> job.video_file, status |-> "failed"]}
    /\ Exit(0)
    /\ UNCHANGED <<fs, dirs, run, args, temp_files, pf_temp_files, video_files, idx, nextId,
                   faults, ran, removed, released, sigAt, unavailable, clobbered, lastCleanup, opened>>

\* lines 198-199: "Erro fatal"; main returns
outer_except ==
    /\ pc = "outer_except"
    /\ errs' = errs \cup {<<"fatal", <<>> >>}
    /\ Exit(0)
    /\ UNCHANGED <<fs, dirs, run, args, temp_files, pf_temp_files, video_files, idx, job,
                   nextId, faults, ran, removed, released, hist, sigAt, unavailable, clobbered, lastCleanup, opened>>

\* ------------------------------------------------------ process_folder()

\* os.listdir
listdir(d) == {e \in FolderFiles \cup FolderDirs : exists(Join(d, e))}

\* the whitelist test without .lower()
IsSupportedCaseSensitive(f) == splitext(f)[2] \in SUPPORTED_VIDEO_EXTENSIONS

\* line 103: the whitelist test on the lower-cased extension
IsSupported(f) == lower(splitext(f)[2]) \in SUPPORTED_VIDEO_EXTENSIONS

\* lines 101-104
VideoFiles(d) == {f \in listdir(d) : isfile(Join(d, f)) /\ IsSupported(f)}

\* lines 97-105: create the output folder, list and filter the input folder
process_folder ==
    /\ pc = "pf_enum"
    /\ dirs' = IF ~exists(args.output) THEN dirs \cup {args.output} ELSE dirs
    /\ \E order \in Perms(VideoFiles(args.input)) : video_files' = order
    /\ pf_temp_files' = <<>>
    /\ idx' = 1
    /\ pc' = "pf_loop"
    /\ UNCHANGED <<fs, run, args, handlers, temp_files, job, nextId, exitStatus, faults,
                   ran, removed, released, errs, hist, sigAt, unavailable, clobbered, lastCleanup, opened>>

\* a destination that keeps the input's extension: <name>.<ext>.txt
BatchOutputPathKeepExt(output_folder, video_file) == Join(output_folder, video_file \o Txt)

\* line 109
BatchOutputPath(output_folder, video_file) == Join(output_folder, splitext(video_file)[1] \o Txt)

\* a skip test that passes only for a destination written to the end
AlreadyProcessedCompleteOnly(output_txt_path) ==
    output_txt_path \in DOMAIN fs /\ fs[output_txt_path].complete

\* a skip test that never passes
AlreadyProcessedNever(output_txt_path) == FALSE

\* the skip test asking for a directory instead of any existing path
AlreadyProcessedDirOnly(output_txt_path) == isdir(output_txt_path)

\* line 111: the skip-if-done test
AlreadyProcessed(output_txt_path) == exists(output_txt_path)

\* lines 107-113: next item, skipped when its output exists; return after the last
process_folder_loop ==
    /\ pc = "pf_loop"
    /\ IF idx > Len(video_files)
       THEN /\ Exit(0)
            /\ UNCHANGED <<job, hist, idx, ran, removed, released, lastCleanup>>
       ELSE LET video_file == video_files[idx]
                j == [NoJob EXCEPT !.video_file = video_file,
                                   !.video_path = Join(args.input, video_file),
                                   !.output_path = BatchOutputPath(args.output, video_file),
                                   !.status = "pending",
                                   !.hadOutput = exists(BatchOutputPath(args.output, video_file))]
            IN  /\ IF AlreadyProcessed(j.output_path)
                   THEN /\ job' = JobEnds(j, "skipped")
                        /\ hist' = hist \cup {[file |-> video_file, status |-> "skipped"]}
                        /\ idx' = idx + 1
                        /\ UNCHANGED <<pc, exitStatus, handlers>>
                   ELSE /\ job' = j
                        /\ pc' = "pf_alloc"
                        /\ UNCHANGED <<hist, idx, exitStatus, handlers>>
                /\ ran' = {}
                /\ removed' = {}
                /\ released' = {}
                /\ lastCleanup' = NoCleanup
    /\ UNCHANGED <<fs, dirs, run, args, temp_files, pf_temp_files, video_files, nextId,
                   faults, errs, sigAt, unavailable, clobbered, opened>>

\* lines 115-119 (get_temp_dir: lines 16-22)
process_folder_alloc ==
    /\ pc = "pf_alloc"
    /\ nextId' = nextId + 1
    /\ dirs' = dirs \cup {TempDir}
    /\ job' = [job EXCEPT !.unique_id = nextId + 1,
                          !.temp_video_path = job.video_path,
                          !.output_audio_path = AudioScratch(nextId + 1),
                          !.mono_audio_path = MonoScratch(nextId + 1),
                          !.status = "active",
                          !.before = TempListing(fs)]
    /\ pf_temp_files' = pf_temp_files \o <<AudioScratch(nextId + 1), MonoScratch(nextId + 1)>>
    /\ pc' = "extract"
    /\ UNCHANGED <<fs, run, args, handlers, temp_files, video_files, idx, exitStatus,
                   faults, ran, removed, released, errs, hist, sigAt, unavailable, clobbered, lastCleanup, opened>>

\* lines 129-131: report the item, release the scratch paths, go on
process_folder_except ==
    /\ pc = "pf_except"
    /\ errs' = errs \cup {<<"item", job.video_file>>}
    /\ job' = JobEnds(job, "failed")
    /\ hist' = hist \cup {[file |-> job.video_file, status |-> "failed"]}
    /\ released' = released \cup Range(pf_temp_files)
    /\ \E o \in cleanup_temp_files(fs, pf_temp_files) :
         /\ fs' = o.fs
         /\ removed' = removed \cup o.tried
         /\ lastCleanup' = CleanupOutcome(pf_temp_files, o)
         /\ IF o.raised
            THEN /\ faults' = faults + 1
                 /\ pc' = "outer_except"
                 /\ UNCHANGED idx
            ELSE /\ idx' = idx + 1
                 /\ pc' = "pf_loop"
                 /\ UNCHANGED faults
    /\ UNCHANGED <<dirs, run, args, handlers, temp_files, pf_temp_files, video_files, nextId,
                   exitStatus, ran, sigAt, unavailable, clobbered, opened>>

\* ---------------------------------------------------------- the signal

\* line 150: the list handle_exit passes to cleanup_temp_files
HandlerRegistry == temp_files

\* lines 148-151: cleanup, then sys.exit(1); an error raised by the cleanup
\* surfaces as an Exception at the interrupted position instead
handle_exit ==
    /\ handlers
    /\ pc # "idle"
    /\ Len(sigAt) < MaxSignals
    /\ sigAt' = Append(sigAt, pc)
    /\ released' = released \cup Range(HandlerRegistry)
    /\ \E o \in cleanup_temp_files(fs, HandlerRegistry) :
         /\ fs' = o.fs
         /\ removed' = removed \cup o.tried
         /\ lastCleanup' = CleanupOutcome(HandlerRegistry, o)
         /\ IF o.raised
            THEN /\ faults' = faults + 1
                 /\ pc' = ExceptTarget(pc)
                 /\ UNCHANGED <<job, exitStatus, handlers>>
            ELSE /\ Exit(1)
                 /\ job' = IF job.status \in {"pending", "active"}
                           THEN JobEnds(job, "interrupted") ELSE job
                 /\ UNCHANGED faults
    /\ UNCHANGED <<dirs, run, args, temp_files, pf_temp_files, video_files, idx, nextId,
                   ran, errs, hist, unavailable, clobbered, opened>>

Next ==
    \/ StartRun
    \/ InstallHandlers
    \/ DefaultSignal
    \/ check_dependencies
    \/ LoadHandles
    \/ Dispatch
    \/ SingleCheck
    \/ SingleAlloc
    \/ download_video
    \/ download_body
    \/ extract_audio
    \/ extract_audio_exit
    \/ convert_to_mono
    \/ convert_to_mono_exit
    \/ transcribe_audio
    \/ correct_text
    \/ open_output
    \/ write_output
    \/ remove_audio
    \/ remove_mono
    \/ remove_video
    \/ job_ok
    \/ single_except
    \/ outer_except
    \/ process_folder
    \/ process_folder_loop
    \/ process_folder_alloc
    \/ process_folder_except
    \/ handle_exit

Spec == Init /\ [][Next]_vars

\* ================================================================ claims

RunEnded == pc = "idle" /\ run > 0

\* scratch files on disk that carry the token of job j
ScratchOf(j) == {p \in TempListing(fs) : fs[p].uid = j.unique_id}

\* every scratch path job j has allocated (lines 177-179, 117-118)
Allocated(j) ==
    {j.output_audio_path, j.mono_audio_path}
    \cup (IF j.temp_video_path # j.video_path THEN {j.temp_video_path} ELSE {})

\* a complete transcript is stored at path p
HasTranscript(p) == p \in DOMAIN fs /\ fs[p].kind = "text" /\ fs[p].complete

\* the user's own files: everything on disk before the first invocation
UserFiles == DOMAIN InitialFiles

\* C1 (as claimed): when a Job has ended, Done or Failed, TempDirectory holds
\* exactly the files it held before the Job started.
ResourceReleaseTotality ==
    job.status \in {"done", "failed"} => TempListing(fs) = job.before

\* C2 (as claimed): after a signal has interrupted a Job and the process has
\* exited, no scratch file of the interrupted Job remains in TempDirectory.
InterruptionSafety ==
    (RunEnded /\ job.status = "interrupted") => ScratchOf(job) = {}

\* C3: a Job whose destination exists when it begins is skipped and never
\* reaches the write stage, and no run ever opens for writing a path that
\* already exists, so a later run leaves every destination as it found it.
SkipIfDone ==
    /\ job.hadOutput => /\ job.status = "skipped"
                        /\ <<job.video_path, "write">> \notin ran
    /\ clobbered = {}

\* C3 witness: a second run skipped a Job whose destination the first run wrote.
SkipIfDoneWitness ==
    /\ run = 2
    /\ job.status = "skipped"
    /\ job.hadOutput
    /\ HasTranscript(job.output_path)
    /\ fs[job.output_path].uid = 1

\* C4 (as claimed): a folder run in which exactly one item failed, and that no
\* signal ended, has reported that item by name and has left a complete
\* transcript at the destination of every other listed item.
BatchIsolation ==
    (/\ RunEnded
     /\ args.mode = "batch"
     /\ sigAt = <<>>
     /\ Cardinality({h \in hist : h.status = "failed"}) = 1)
    => \A h \in {x \in hist : x.status = "failed"} :
          /\ <<"item", h.file>> \in errs
          /\ \A f \in Range(video_files) \ {h.file} :
                HasTranscript(BatchOutputPath(args.output, f))

\* C5: no file of the user's is ever handed to the cleanup routine or to
\* os.remove, all of them stay on disk unchanged, and a fetched-video scratch
\* path is removed only after the fetch that created it.
LocalInputNeverDeleted ==
    /\ (released \cup removed) \cap UserFiles = {}
    /\ \A p \in UserFiles : p \in DOMAIN fs /\ fs[p] = InitialFiles[p]
    /\ \A p \in removed : p \in Allocated(job)
    /\ (job.temp_video_path # job.video_path /\ job.temp_video_path \in removed)
          => <<job.video_path, "fetch">> \in ran

\* C5 witness: a Job on a local input has finished and removed its scratch audio.
LocalInputNeverDeletedWitness ==
    /\ job.video_path = LocalVideo
    /\ job.status = "done"
    /\ job.output_audio_path \in removed
    /\ job.mono_audio_path \in removed

\* C6 (as claimed): a single-item run on an HTTP(S) URL whose destination did
\* not exist, with every dependency available, no stage failing and no signal,
\* ends with the fetch having run, the transcript stored and no fetched video
\* left in TempDirectory.
RemoteInputHandling ==
    (/\ RunEnded
     /\ startswith_http(args.input)
     /\ unavailable = {}
     /\ faults = 0
     /\ sigAt = <<>>
     /\ exitStatus = 0
     /\ job.status # "skipped")
    => /\ <<args.input, "fetch">> \in ran
       /\ HasTranscript(SingleOutputPath(args.input, args.output))
       /\ TempListing(fs) = job.before

\* C7 (as claimed): after a signal has interrupted a Job, its destination
\* does not exist, so the skip test of the next run does not pass for it.
AllOrNothingCancellation ==
    (RunEnded /\ job.status = "interrupted") => ~exists(job.output_path)

\* the entries of the input folder that are regular files with a whitelisted
\* extension, compared case-insensitively
Eligible == {E_a_mp4, E_a_MKV, E_b_avi}

\* C8: a folder run lists exactly the eligible entries; only they become Jobs,
\* run stages or get an output; a run that reaches the end of the folder has
\* handled every one of them.
ExtensionFiltering ==
    args.mode = "batch" =>
       /\ idx >= 1 => Range(video_files) = Eligible
       /\ job.status # "none" => job.video_file \in Eligible
       /\ \A r \in ran : \E e \in Eligible : r[1] = Join(args.input, e)
       /\ \A e \in (FolderFiles \cup FolderDirs) \ Eligible :
             /\ ~exists(BatchOutputPath(args.output, e))
             /\ \A p \in DOMAIN fs : fs[p].of # Join(args.input, e)
       /\ (RunEnded /\ sigAt = <<>> /\ errs \cap {<<"fatal", <<>> >>} = {})
             => {h.file : h \in hist} = Eligible

\* C8 witness: a folder run has ended having transcribed the upper-case entry.
ExtensionFilteringWitness ==
    /\ RunEnded
    /\ args.mode = "batch"
    /\ [file |-> E_a_MKV, status |-> "done"] \in hist
    /\ {h.file : h \in hist} = Eligible

\* C9: while a dependency is unavailable no Job is constructed, no stage runs,
\* no scratch path is allocated or registered, TempDirectory is not touched and
\* no destination is written in that run.
DependencyErrorsFatal ==
    unavailable # {} =>
       /\ job = NoJob
       /\ ran = {}
       /\ temp_files = <<>> /\ pf_temp_files = <<>>
       /\ nextId = LastTokenOnDisk
       /\ hist = {}
       /\ \A p \in DOMAIN fs : fs[p].kind = "text" => fs[p].uid < run
       /\ pc \in {"idle", "install", "check_deps", "outer_except"}

\* C9 witness: a run with a missing dependency has ended with the fatal error line.
DependencyErrorsFatalWitness ==
    /\ RunEnded
    /\ unavailable # {}
    /\ <<"fatal", <<>> >> \in errs
    /\ exitStatus = 0

\* C10 (as claimed): while the handlers are installed and a Job is active, the
\* registry the handler reads holds every scratch path the Job has allocated.
LiveScratchRegistry ==
    (handlers /\ job.status = "active") => Allocated(job) \subseteq Range(HandlerRegistry)

\* the destination at p was opened for writing and the write did not complete
HalfWritten(p) == p \in DOMAIN fs /\ fs[p].kind = "text" /\ ~fs[p].complete

\* C11 (as claimed): a call of the cleanup routine never raises to its caller
\* and calls os.remove on every listed file that was on disk, whatever happens
\* to the removals before it.
ReleaseAllRobust ==
    lastCleanup.called => (~lastCleanup.raised /\ lastCleanup.unattempted = {})

\* C12 (as claimed): a Job that has ended Failed has left no half-written
\* file at its destination.
FailedWritingLeavesNoPartial ==
    job.status = "failed" => ~HalfWritten(job.output_path)

\* stage s of the current Job has been started
Did(s) == <<job.video_path, s>> \in ran

\* C13: the destination is opened only after the speech-to-text call and the
\* correction call have both been made and have returned, and a Job that has
\* not reached the open (in particular one whose speech-to-text or correction
\* call raised) has neither created nor modified its destination.
TranscriberFailuresWriteNothing ==
    /\ (pc = "open" \/ Did("write")) => (Did("transcribe") /\ Did("correct"))
    /\ pc \in {"transcribe", "correct"} => ~Did("write")
    /\ (job.status \in {"active", "failed"} /\ ~Did("write"))
          => (~exists(job.output_path) /\ job.output_path \notin Range(opened))

\* C13 witness: a Job has ended Failed because the correction call raised.
TranscriberFailuresWriteNothingWitness ==
    /\ job.status = "failed"
    /\ sigAt = <<>>
    /\ Did("correct")
    /\ ~Did("write")

\* the order of the stages as far as the current Job has got
StageOrderInv ==
    /\ Did("fetch") => startswith_http(job.video_path)
    /\ Did("extract") => (startswith_http(job.video_path) => Did("fetch"))
    /\ Did("downmix") => Did("extract")
    /\ Did("transcribe") => Did("downmix")
    /\ Did("correct") => Did("transcribe")
    /\ Did("write") => Did("correct")
    /\ pc \in {"extract", "extract_run"} =>
          (job.temp_video_path \in DOMAIN fs /\ ~Did("downmix"))
    /\ pc \in {"mono", "mono_run"} =>
          (job.output_audio_path \in DOMAIN fs /\ ~Did("transcribe"))
    /\ pc \in {"transcribe", "correct", "open"} => job.mono_audio_path \in DOMAIN fs
    /\ job.status \in {"done", "failed"} => pc \notin InnerTry

\* a step taken after a stage has failed, or after the Job has ended Done or
\* Failed, starts no stage, and the ended Job stays as it ended until the next
\* Job replaces it
StageAbsorbing ==
    (pc \in {"s_except", "pf_except"} \/ job.status \in {"done", "failed"})
    => /\ ran' \subseteq ran
       /\ pc' \notin InnerTry
       /\ job.status \in {"done", "failed"} =>
             (job' = job \/ job'.status \in {"none", "pending", "skipped"})

\* C14: the stages of a Job start in the order fetch (URL inputs only),
\* extract, downmix, transcribe, correct, write, each only after the one before
\* it has succeeded; after a failure no further stage of the Job starts, and
\* Done and Failed are final for the Job.
StageOrdering == []StageOrderInv /\ [][StageAbsorbing]_vars

\* C14 witness: a Job on a URL input has ended Done after all its stages.
StageOrderingWitness ==
    /\ job.status = "done"
    /\ startswith_http(job.video_path)
    /\ \A s \in {"fetch", "extract", "downmix", "transcribe", "correct", "write"} : Did(s)

\* a step that begins a Job whose destination exists skips it and leaves the
\* disk, the token counter and both scratch lists as they were
SkipStep ==
    (job' # job /\ (job'.hadOutput \/ job'.status = "skipped"))
    => /\ job'.status = "skipped"
       /\ job'.hadOutput
       /\ fs' = fs
       /\ dirs' = dirs
       /\ nextId' = nextId
       /\ temp_files' = temp_files
       /\ pf_temp_files' = pf_temp_files
       /\ ran' = {}
       /\ removed' = {}

\* a skipped Job holds no scratch path and is at no stage
SkippedHoldsNothing ==
    job.status = "skipped" =>
       /\ job.unique_id = 0
       /\ job.temp_video_path = <<>>
       /\ job.output_audio_path = <<>>
       /\ job.mono_audio_path = <<>>
       /\ ran = {}
       /\ pc \notin InnerTry \cup {"s_alloc", "pf_alloc", "s_except", "pf_except"}

\* C15: a Job whose destination exists when it is reached is skipped in the
\* step that reaches it; that step allocates no token, registers nothing in
\* either scratch list, creates neither TempDirectory nor any file, and the
\* skipped Job never runs a stage.
SkipAllocatesNothing == []SkippedHoldsNothing /\ [][SkipStep]_vars

\* C15 witness: a folder run has skipped all three items without drawing a token.
SkipAllocatesNothingWitness ==
    /\ args.mode = "batch"
    /\ job.status = "skipped"
    /\ hist = {[file |-> e, status |-> "skipped"] : e \in Eligible}
    /\ nextId = 0
    /\ pf_temp_files = <<>>

\* the current Job's own complete transcript is stored at its destination
OwnTranscript ==
    /\ HasTranscript(job.output_path)
    /\ fs[job.output_path].of = job.video_path
    /\ fs[job.output_path].uid = run

\* C16: on the success path of a Job, while the destination is being opened or
\* written no scratch file has been removed and the audio files are still on
\* disk; once the first os.remove of the Job has been called the destination
\* is completely written and closed; a Job that ended Done has its transcript
\* and has removed both audio files.
WriteBeforeCleanup ==
    /\ pc \in {"open", "write"} =>
          /\ removed = {}
          /\ {job.output_audio_path, job.mono_audio_path} \subseteq DOMAIN fs
    /\ (pc \in InnerTry /\ removed # {}) => OwnTranscript
    /\ job.status = "done" =>
          /\ OwnTranscript
          /\ {job.output_audio_path, job.mono_audio_path} \subseteq removed

\* C16 witness: the first scratch file has just been removed, the second is
\* still on disk, and the transcript is complete.
WriteBeforeCleanupWitness ==
    /\ pc = "rm_mono"
    /\ removed = {job.output_audio_path}
    /\ job.mono_audio_path \in DOMAIN fs
    /\ OwnTranscript

\* C17 (as claimed): the handlers are installed at every position from the
\* dependency check on, and a process in which handle_exit has run ends with
\* a non-zero status.
SignalGuard ==
    /\ pc \notin {"idle", "install"} => handlers
    /\ (RunEnded /\ sigAt # <<>>) => exitStatus # 0

\* a folder run has returned from process_folder with no item failed, no error
\* line printed and no signal handled
CleanBatchEnd ==
    /\ RunEnded
    /\ args.mode = "batch"
    /\ sigAt = <<>>
    /\ errs = {}
    /\ \A h \in hist : h.status # "failed"

\* the destinations of the input folder's content: one per distinct stem
ExpectedDests == {Join(OutDir, <<"a">> \o Txt), Join(OutDir, <<"b">> \o Txt)}

\* the first listed item whose destination is d
FirstWithDest(d) ==
    LET at == {i \in 1..Len(video_files) : BatchOutputPath(args.output, video_files[i]) = d}
    IN  video_files[CHOOSE i \in at : \A j \in at : i <= j]

\* C18 (as claimed): a failure-free folder run into an empty output folder ends,
\* whatever the listing order, with the destination of every eligible input
\* holding the transcript of that input.
BatchConvergenceAnyOrder ==
    (CleanBatchEnd /\ run = 1) =>
       \A e \in Eligible :
          /\ HasTranscript(BatchOutputPath(args.output, e))
          /\ fs[BatchOutputPath(args.output, e)].of = Join(args.input, e)

\* C18 (amended): whatever the listing order, a failure-free folder run has
\* handled every eligible input and ends with the same destination files, one
\* per distinct stem; each one written in this run is complete and was made
\* from the first listed input with that stem.  A folder run that finds every
\* destination already on disk skips every item and starts no stage.
BatchConvergence ==
    /\ CleanBatchEnd =>
          /\ {h.file : h \in hist} = Eligible
          /\ {BatchOutputPath(args.output, f) : f \in Range(video_files)} = ExpectedDests
          /\ \A d \in ExpectedDests :
                /\ d \in DOMAIN fs
                /\ fs[d].uid = run =>
                      /\ fs[d].complete
                      /\ fs[d].of = Join(args.input, FirstWithDest(d))
    /\ (args.mode = "batch" /\ \A d \in ExpectedDests : d \in DOMAIN fs /\ fs[d].uid < run)
          => /\ ran = {}
             /\ \A h \in hist : h.status = "skipped"
             /\ job.unique_id = 0
             /\ opened = <<>>
             /\ pc \notin InnerTry \cup {"pf_alloc", "pf_except"}

\* C18 witness: a second folder run has skipped every item after a first one
\* that listed a.MKV before a.mp4 and so made a.txt from a.MKV.
BatchConvergenceWitness ==
    /\ CleanBatchEnd
    /\ run = 2
    /\ hist = {[file |-> e, status |-> "skipped"] : e \in Eligible}
    /\ \A d \in ExpectedDests : HasTranscript(d) /\ fs[d].uid = 1
    /\ fs[Join(OutDir, <<"a">> \o Txt)].of = Join(InDir, E_a_MKV)

\* the items of this folder run that ended with status st
Ended(st) == {h.file : h \in {x \in hist : x.status = st}}

====
